---- MODULE Spec2Model ----
(***************************************************************************)
(* Audio Query Processor: the Streamlit session of main.py, the recording  *)
(* and service helpers of utils.py and the evaluation harness of evals.py. *)
(*                                                                         *)
(* Python's None is the empty tuple and any other value v is <<v>>, so     *)
(* that a session variable has one shape whatever it holds.                *)
(***************************************************************************)
EXTENDS Integers, Sequences, FiniteSets, TLC

\* ------------------------------------------------------------------ bounds
\* Longest column list the generation service returns at Step A.
MaxCols == 2
\* Most audio chunks the callback enqueues during one recording.
MaxQueue == 2
\* Most rows the store returns.
MaxRows == 1

\* ------------------------------------------------------------ Python values
None == <<>>
Some(v) == <<v>>
IsNone(o) == o = <<>>
Val(o) == o[1]

\* The members of a sequence.
Range(s) == {s[i] : i \in 1..Len(s)}

\* All sequences over S of length at most n that name no member twice.
SeqsUpTo(S, n) ==
    {s \in UNION {[1..k -> S] : k \in 0..n} :
        \A i \in 1..Len(s), j \in 1..Len(s) : i # j => s[i] # s[j]}

RECURSIVE Flatten(_)
\* The concatenation of a sequence of sequences.
Flatten(ss) == IF ss = <<>> THEN <<>> ELSE Head(ss) \o Flatten(Tail(ss))

\* ------------------------------------------------------- columns.json, names
\* Field names the generation service may return; "zz.unknown" is in no catalog.
Names == {"attributes.model_name", "output.model_latency.mean", "zz.unknown"}

\* The contents columns.json can have: an ordered mapping name -> description.
Catalogs ==
    { << [name |-> "attributes.model_name", description |-> "name of the model"] >>,
      << [name |-> "output.model_latency.mean", description |-> "mean latency"],
         [name |-> "attributes.model_name", description |-> "name of the model"] >> }

\* list(columns_with_description.keys())
Keys(catalog) == [i \in 1..Len(catalog) |-> catalog[i].name]

\* A text (a transcription, a user query) is the sequence of its words, and the
\* empty string the empty sequence.
\* What audio2text can return for a recording ("" when nothing was recognised).
Transcriptions == {<<>>, <<"models", "with", "latency", "less", "than", "100ms">>}

\* ------------------------------------------------------------ JSON values
\* The value under "columns" of a Step A reply: a list of names, or a JSON
\* value that is no list and cannot be iterated (a number, null).
ColList(items) == [type |-> "list", items |-> items]
ColNumber == [type |-> "number", items |-> <<>>]

\* A node of a filter expression: op is the JSON key, val the string under
\* $getField / $literal / the "to" of $convert, args the operand nodes.
Node(op, val, args) == [op |-> op, val |-> val, args |-> args]
GetField(name) == Node("$getField", name, <<>>)
Literal(v) == Node("$literal", v, <<>>)
Convert(e) == Node("$convert", "double", <<e>>)
Contains(e, sub) == Node("$contains", "", <<e, sub>>)
Cmp(op, l, r) == Node(op, "", <<l, r>>)
Not(e) == Node("$not", "", <<e>>)
And(l, r) == Node("$and", "", <<l, r>>)
Expr(e) == Node("$expr", "", <<e>>)

\* field <op> literal, with the numeric conversion the prompts ask for
NumCmp(op, name, v) == Cmp(op, Convert(GetField(name)), Literal(v))

RECURSIVE FieldRefs(_)
\* Every name under a $getField of a filter.
FieldRefs(e) ==
    IF e.op = "$getField" THEN {e.val}
    ELSE UNION {FieldRefs(e.args[i]) : i \in 1..Len(e.args)}

RECURSIVE Operators(_)
\* Every operator key of a filter.
Operators(e) == {e.op} \cup UNION {Operators(e.args[i]) : i \in 1..Len(e.args)}

\* A reply of the generation service: the text parses as JSON or not, and the
\* parsed object has each of the three keys or not.
Reply(valid, columns, query, sort_by) ==
    [valid |-> valid, columns |-> columns, query |-> query, sort_by |-> sort_by]
BadJson == Reply(FALSE, None, None, None)
EmptyObject == Reply(TRUE, None, None, None)

\* -------------------------------------------------------- prompts.py, Jinja
\* A template is its placeholders in order, between pieces of fixed text.
COLUMN_SELECTION_PROMPT ==
    <<"COLUMN_SELECTION:", "{{columns_with_description}}", "Query: ", "{{query}}">>
QUERY_PROMPT ==
    <<"QUERY:", "{{columns_with_description}}", "Query: ", "{{query}}",
      "Columns: ", "{{columns}}">>
SORT_BY_PROMPT ==
    <<"SORT_BY:", "{{columns_with_description}}", "Query: ", "{{query}}",
      "Columns: ", "{{columns}}", "Output:">>

\* str() of a Python list of strings, as Jinja prints it: ['a', 'b']
StrOfList(items) ==
    <<"[">> \o
    Flatten([i \in 1..Len(items) |->
        (IF i > 1 THEN <<", ">> ELSE <<>>) \o <<"'", items[i], "'">>]) \o
    <<"]">>

\* str() of the value passed as columns: "" stays empty, a list prints as a list.
StrOfColumns(cols) ==
    IF IsNone(cols) THEN <<>>
    ELSE IF Val(cols).type = "list" THEN StrOfList(Val(cols).items)
    ELSE <<"number">>

\* str() of the catalog dict, as Jinja prints it: {'a': 'x', 'b': 'y'}
StrOfDict(catalog) ==
    <<"{">> \o
    Flatten([i \in 1..Len(catalog) |->
        (IF i > 1 THEN <<", ">> ELSE <<>>) \o
        <<"'", catalog[i].name, "'", ": ", "'", catalog[i].description, "'">>]) \o
    <<"}">>

\* utils.render_prompt: the template with each placeholder replaced by the
\* text of its value.
render_prompt(query, columns_with_description, columns, prompt_template) ==
    Flatten([i \in 1..Len(prompt_template) |->
        CASE prompt_template[i] = "{{query}}" -> query
          [] prompt_template[i] = "{{columns_with_description}}" -> columns_with_description
          [] prompt_template[i] = "{{columns}}" -> columns
          [] OTHER -> <<prompt_template[i]>>])

\* utils.get_fields_description: one "Column: .. Description: .." block per
\* entry, in the file's order.
get_fields_description(catalog) ==
    Flatten([i \in 1..Len(catalog) |->
        <<"Column: ", catalog[i].name, "\nDescription: ", catalog[i].description, "\n\n">>])

\* evals.get_fields_description: the parsed dict itself, which the template
\* then prints with str().
evals_get_fields_description(catalog) == StrOfDict(catalog)

\* ------------------------------------------------------------------ state
VARIABLES
    \* st.session_state (main.py, initialize_session_state)
    recording, audio_file, query_result, required_columns, final_query,
    stream, weave_response, status_code, sort_by_query,
    \* module globals of utils.py and the device they drive: stream_active
    \* says that the stream the session holds is started
    is_recording, audio_queue, stream_active, wav_file,
    \* whether the callback of the stream has read is_recording as set
    \* (utils.py 96) and has not yet put its block into the queue (utils.py 97)
    putting,
    \* the contents of columns.json, and whether the file can be opened and
    \* parsed at all (it may be missing or hold no JSON)
    columns_json, columns_json_readable,
    \* where the script run of main() stands, and process_audio_file's local
    pc, columns_with_description_str,
    \* what the last script run rendered
    screen,
    \* the calls process_audio_file has issued in its current (or last) run for
    \* the recording in audio_file
    calls,
    \* for the recording now in audio_file: how often process_audio_file was
    \* entered, and whether one of those runs ended in an exception
    runs, aborted,
    \* evals.py, one row of the evaluation: the row, where the harness stands,
    \* predict's output, the scorer's expected query and score, the calls of
    \* generate_response so far
    ev_item, ev_pc, ev_output, ev_expected, ev_score, ev_calls,
    \* the generation service as the harness sees it: whether it may answer a
    \* prompt it has seen with another reply (it is not deterministic in spite
    \* of temperature 0.0), and the replies it has given
    ev_varying, ev_service,
    \* the browser sessions of one server process, all of which share the
    \* globals of utils.py. For each session: its recording flag, its stream,
    \* whether that stream is started, its audio_file, where its button
    \* handler stands (phase), stop_recording's local audio_data, what its
    \* last stop_recording wrote (saved), whether start_recording has emptied
    \* the queue and stop_recording has not been called since (between),
    \* whether its last stop_recording has returned (stopped), and the block
    \* the callback of its stream is about to put (putting). Then the blocks
    \* the device has delivered to each session's callback since its last
    \* start_recording emptied the queue, and the number of blocks delivered.
    sessions, delivered, chunk_no,
    \* utils.record_audio: the audio it is about to write into the file it has
    \* opened, if it stands there
    record_audio_at

session == <<recording, audio_file, query_result, required_columns, final_query,
             stream, weave_response, status_code, sort_by_query>>
recorder == <<is_recording, audio_queue, stream_active, wav_file, putting>>
columns_file == <<columns_json, columns_json_readable>>
application == <<session, recorder, pc, columns_with_description_str, screen, calls,
                 runs, aborted>>
harness == <<ev_item, ev_pc, ev_output, ev_expected, ev_score, ev_calls,
             ev_varying, ev_service>>
studio == <<sessions, delivered, chunk_no, record_audio_at>>
vars == <<application, harness, columns_file, studio>>

\* Most times process_audio_file is entered for one recording.
MaxRuns == 2

\* Most blocks the device delivers to the callbacks of all sessions together.
MaxChunks == 3

\* ------------------------------------------------------- what the services say
\* Replies at Step A: unparseable text, an object without "columns", a list of
\* names (any of them possibly unknown), or a value that is no list.
RepliesA ==
    {BadJson, EmptyObject, Reply(TRUE, Some(ColNumber), None, None)}
    \cup {Reply(TRUE, Some(ColList(c)), None, None) : c \in SeqsUpTo(Names, MaxCols)}

\* Filters the service may synthesize: over known and unknown fields.
Filters ==
    { Expr(NumCmp("$gt", "output.model_latency.mean", "100")),
      Expr(Not(NumCmp("$gte", "output.model_latency.mean", "100"))),
      Expr(Contains(GetField("attributes.model_name"), Literal("gpt"))),
      Expr(And(Contains(GetField("attributes.model_name"), Literal("gpt")),
               NumCmp("$gt", "zz.unknown", "100"))) }
RepliesB == {BadJson, EmptyObject} \cup {Reply(TRUE, None, Some(f), None) : f \in Filters}

\* Sort specifications the service may synthesize.
Sorts ==
    { <<>>,
      << [field |-> "output.model_latency.mean", direction |-> "asc"] >>,
      << [field |-> "zz.unknown", direction |-> "desc"] >> }
RepliesC == {BadJson, EmptyObject} \cup {Reply(TRUE, None, None, Some(s)) : s \in Sorts}

\* What can happen inside call_weave: every step succeeds and the store
\* returns some rows, or one of the three steps raises.
StoreOutcomes ==
    {[ok |-> TRUE, failed |-> "", rows |-> [i \in 1..n |-> i]] : n \in 0..MaxRows}
    \cup {[ok |-> FALSE, failed |-> f, rows |-> <<>>] :
            f \in {"weave.init", "get_calls", "to_pandas"}}

\* pd.DataFrame()
EmptyDataFrame == <<>>

\* ------------------------------------------------------------- pure helpers
\* bool(x) for an Optional[str]
Truthy(o) == ~IsNone(o) /\ Val(o) # <<>>

\* A callback that puts every block.
audio_callback_unconditional(flag, indata) == Some(indata)

\* utils.audio_callback (utils.py 96-97): what the callback goes on to put
\* once it has read the global is_recording as flag: the block, or nothing.
audio_callback(flag, indata) == IF flag THEN Some(indata) ELSE None

\* main.py 166-169: the members of cols that are in allowed, in cols' order.
RECURSIVE FilterColumns(_, _)
FilterColumns(cols, allowed) ==
    IF cols = <<>> THEN <<>>
    ELSE (IF Head(cols) \in Range(allowed) THEN <<Head(cols)>> ELSE <<>>)
         \o FilterColumns(Tail(cols), allowed)

\* A call_weave that reports 200 whatever happened.
call_weave_always_200(query, sort_by, outcome) == <<outcome.rows, 200>>

\* utils.call_weave: the pair it returns for what happened inside the try.
call_weave(query, sort_by, outcome) ==
    IF outcome.ok THEN <<outcome.rows, 200>> ELSE <<EmptyDataFrame, 500>>

\* A display_results that takes every status but 500 for success.
display_results_unless_500(qr, rc, fq, sq, wr, sc) ==
    [kind |-> "results", transcription |-> qr, columns |-> rc, query |-> fq,
     sort |-> sq,
     panel |-> IF sc # Some(500) THEN "table" ELSE "error",
     rows |-> IF sc # Some(500) THEN wr ELSE None]

\* main.display_results: the four panes and the Weave Response section.
display_results(qr, rc, fq, sq, wr, sc) ==
    [kind |-> "results", transcription |-> qr, columns |-> rc, query |-> fq,
     sort |-> sq,
     panel |-> IF sc = Some(200) THEN "table" ELSE "error",
     rows |-> IF sc = Some(200) THEN wr ELSE None]

BlankScreen ==
    [kind |-> "blank", transcription |-> None, columns |-> None, query |-> None,
     sort |-> None, panel |-> "", rows |-> None]
ExceptionScreen == [BlankScreen EXCEPT !.kind = "exception"]

\* main.main 61-63: the results are drawn only for a truthy transcription.
main_tail(qr, rc, fq, sq, wr, sc) ==
    IF Truthy(qr) THEN display_results(qr, rc, fq, sq, wr, sc) ELSE BlankScreen

\* One entry of calls.
Call(step, prompt, columns, reply, query, sort_by, outcome) ==
    [step |-> step, prompt |-> prompt, columns |-> columns, reply |-> reply,
     query |-> query, sort_by |-> sort_by, outcome |-> outcome]
NoOutcome == [ok |-> FALSE, failed |-> "", rows |-> <<>>]

\* A process_audio_file that calls the store before sort synthesis.
steps_execute_before_sort ==
    <<"audio2text", "select", "validate", "filter", "execute", "sort">>

\* The steps of process_audio_file, in the order the function states them.
process_audio_file_steps ==
    <<"audio2text", "select", "validate", "filter", "sort", "execute">>

\* The step after s, "done" after the last.
StepAfter(s) ==
    LET i == CHOOSE k \in 1..Len(process_audio_file_steps) :
                 process_audio_file_steps[k] = s
    IN IF i = Len(process_audio_file_steps) THEN "done"
       ELSE process_audio_file_steps[i + 1]

\* ------------------------------------------------------- evals.py, dataset
\* evals.py 34-45
user_queries ==
    << <<"models", "which", "has", "latency", "less", "than", "100ms">>,
       <<"models", "which", "has", "accuracy", "greater", "than", "90%">>,
       <<"models", "which", "has", "F1", "score", "greater", "than", "0.95">>,
       <<"models", "with", "precision", "above", "0.85", "and", "recall", "greater",
         "than", "0.8">>,
       <<"models", "trained", "for", "more", "than", "3", "epochs", "with", "learning",
         "rate", "less", "than", "0.001">>,
       <<"models", "where", "the", "model", "name", "contains", "'gpt'">>,
       <<"models", "with", "generation", "time", "less", "than", "200ms", "and",
         "accuracy", "above", "0.85">>,
       <<"models", "with", "total", "tokens", "mean", "less", "than", "500">>,
       <<"models", "where", "the", "warmup", "ratio", "is", "greater", "than", "0.1">>,
       <<"models", "with", "true", "hallucination", "fraction", "less", "than", "0.3">> >>

\* evals.py 48-167
gt_filters ==
    << Expr(NumCmp("$lt", "output.model_latency.mean", "100")),
       Expr(NumCmp("$gt", "output.HalluScorerEvaluator.scorer_evaluation_metrics.accuracy",
                   "0.9")),
       Expr(NumCmp("$gt", "output.HalluScorerEvaluator.scorer_evaluation_metrics.f1",
                   "0.95")),
       Expr(And(NumCmp("$gt",
                       "output.HalluScorerEvaluator.scorer_evaluation_metrics.precision",
                       "0.85"),
                NumCmp("$gt",
                       "output.HalluScorerEvaluator.scorer_evaluation_metrics.recall",
                       "0.8"))),
       Expr(And(NumCmp("$gt", "attributes.num_train_epochs", "3"),
                Not(NumCmp("$gte", "attributes.learning_rate", "0.001")))),
       Expr(Contains(GetField("attributes.model_name"), Literal("gpt"))),
       Expr(And(Not(NumCmp("$gte", "output.model_output.generation_time.mean", "200")),
                NumCmp("$gt",
                       "output.HalluScorerEvaluator.scorer_evaluation_metrics.accuracy",
                       "0.85"))),
       Expr(Not(NumCmp("$gte", "output.model_output.total_tokens.mean", "500"))),
       Expr(NumCmp("$gt", "attributes.warmup_ratio", "0.1")),
       Expr(Not(NumCmp("$gte",
                       "output.HalluScorerEvaluator.is_hallucination.true_fraction",
                       "0.3"))) >>

\* evals.py 170-181
eval_dataset ==
    [i \in 1..Len(user_queries) |->
        [id |-> i - 1, user_query |-> user_queries[i], gt_filters |-> gt_filters[i]]]

\* evals.py 258-261: the rows the evaluation is given keep the query alone.
evaluation_dataset ==
    [i \in 1..Len(eval_dataset) |-> [user_query |-> eval_dataset[i].user_query]]

\* ------------------------------------------------------------------- Init
\* The session after initialize_session_state, before any recording.
InitApplication ==
    /\ recording = FALSE
    /\ audio_file = None
    /\ query_result = None
    /\ required_columns = None
    /\ final_query = None
    /\ stream = None
    /\ weave_response = None
    /\ status_code = None
    /\ sort_by_query = None
    /\ is_recording = FALSE
    /\ audio_queue = <<>>
    /\ stream_active = FALSE
    /\ wav_file = <<>>
    /\ putting = FALSE
    /\ pc = "idle"
    /\ columns_with_description_str = <<>>
    /\ screen = BlankScreen
    /\ calls = <<>>
    /\ runs = 0
    /\ aborted = FALSE

\* The harness before predict is called for the row item.
InitHarness(item, varying) ==
    /\ ev_item = item
    /\ ev_pc = "predict_select"
    /\ ev_output = None
    /\ ev_expected = None
    /\ ev_score = None
    /\ ev_calls = <<>>
    /\ ev_varying = varying
    /\ ev_service = <<>>

\* The browser sessions a server process may have.
AllSessions == {1, 2}

\* No session has recorded anything and the device has delivered nothing.
InitStudio ==
    /\ sessions = [s \in AllSessions |->
                     [recording |-> FALSE, stream |-> None, started |-> FALSE,
                      audio_file |-> None, phase |-> "idle",
                      audio_data |-> <<>>, saved |-> None, between |-> FALSE,
                      stopped |-> FALSE, putting |-> None]]
    /\ delivered = [s \in AllSessions |-> <<>>]
    /\ chunk_no = 0
    /\ record_audio_at = None

\* The application is started; the evaluation script is not run.
Init ==
    /\ InitApplication
    /\ columns_json \in Catalogs
    /\ columns_json_readable \in BOOLEAN
    /\ InitHarness(1, FALSE)
    /\ InitStudio

\* ------------------------------------------------------- utils.py recorder
\* utils.audio_callback up to its test (utils.py 83-96), run by the device
\* thread of the started stream for each block: it reads the global
\* is_recording, under no lock. The callbacks of a stream follow one
\* another.
AudioCallback ==
    /\ stream_active
    /\ ~putting
    /\ Len(audio_queue) < MaxQueue
    /\ putting' = ~IsNone(audio_callback(is_recording, 1))
    /\ UNCHANGED <<session, is_recording, audio_queue, stream_active, wav_file,
                   columns_file, harness, studio, pc,
                   columns_with_description_str, screen, calls, runs, aborted>>

\* utils.audio_callback after its test (utils.py 97): the block is put into
\* the queue, whatever is_recording has become since.
AudioCallbackPuts ==
    /\ putting
    /\ audio_queue' = Append(audio_queue, 1)
    /\ putting' = FALSE
    /\ UNCHANGED <<session, is_recording, stream_active, wav_file,
                   columns_file, harness, studio, pc, columns_with_description_str,
                   screen, calls, runs, aborted>>

\* ------------------------------------------------- main.py, button handlers
\* "Start Recording" (main.py 112-119) with utils.start_recording inside it;
\* opening the input stream succeeds or raises.
ClickStartRecording ==
    /\ pc = "idle"
    /\ ~recording
    /\ recording' = TRUE
    /\ audio_file' = None
    /\ query_result' = None
    /\ required_columns' = None
    /\ final_query' = None
    /\ audio_queue' = <<>>
    /\ is_recording' = TRUE
    /\ runs' = 0
    /\ aborted' = FALSE
    /\ \E opened \in BOOLEAN :
         IF opened
         THEN /\ stream_active' = TRUE
              /\ stream' = Some(1)
              /\ pc' = "rerun"
              /\ screen' = screen
         ELSE /\ stream_active' = stream_active
              /\ stream' = stream
              /\ pc' = "idle"
              /\ screen' = ExceptionScreen
    /\ calls' = <<>>
    /\ UNCHANGED <<weave_response, status_code, sort_by_query, wav_file, putting,
                   columns_file, harness, studio, columns_with_description_str>>

\* "Stop Recording" (main.py 123-126) up to the first statement of
\* utils.stop_recording (utils.py 143), which clears is_recording; the
\* stream is still started and the device thread goes on calling the
\* callback while stream.stop() waits. Without a stream the handler is
\* finished.
ClickStopRecording ==
    /\ pc = "idle"
    /\ recording
    /\ recording' = FALSE
    /\ IF ~IsNone(stream)
       THEN is_recording' = FALSE /\ pc' = "stop_recording"
       ELSE is_recording' = is_recording /\ pc' = "rerun"
    /\ runs' = 0
    /\ aborted' = FALSE
    /\ UNCHANGED <<audio_file, query_result, required_columns, final_query, stream,
                   weave_response, status_code, sort_by_query, audio_queue,
                   stream_active, wav_file, putting, columns_file,
                   harness, studio, columns_with_description_str, screen, calls>>

\* The rest of utils.stop_recording (utils.py 144-167) and of the handler
\* (main.py 126-128): the stream is stopped and closed, everything is taken
\* out of the queue and, unless that is nothing, written to "audio.wav".
\* stream.stop() and stream.close() are called with the library's defaults,
\* under which they ignore the errors of the device; stop() returns once the
\* callback of the stream has finished.
StopRecordingReturns ==
    /\ pc = "stop_recording"
    /\ ~putting
    /\ stream_active' = FALSE
    /\ audio_queue' = <<>>
    /\ IF audio_queue = <<>>
       THEN audio_file' = None /\ wav_file' = wav_file
       ELSE audio_file' = Some("audio.wav") /\ wav_file' = audio_queue
    /\ stream' = None
    /\ pc' = "rerun"
    /\ UNCHANGED <<recording, query_result, required_columns, final_query,
                   weave_response, status_code, sort_by_query, is_recording,
                   putting, columns_file, harness, studio,
                   columns_with_description_str, screen, calls, runs, aborted>>

\* "Start Over" (main.py 227-229) with reset_session_state; the button exists
\* only on a page that shows results.
ClickStartOver ==
    /\ pc = "idle"
    /\ screen.kind = "results"
    /\ recording' = FALSE
    /\ audio_file' = None
    /\ query_result' = None
    /\ required_columns' = None
    /\ final_query' = None
    /\ stream' = None
    /\ weave_response' = None
    /\ status_code' = None
    /\ sort_by_query' = None
    /\ runs' = 0
    /\ aborted' = FALSE
    /\ pc' = "rerun"
    /\ calls' = <<>>
    /\ UNCHANGED <<stream_active, putting, is_recording, audio_queue, wav_file,
                   columns_file, harness, studio, columns_with_description_str,
                   screen>>

\* ------------------------------------------------------ main.py, script run
\* A run of main() without a click (after st.experimental_rerun, or one the
\* user asks for): it enters process_audio_file under the guard of line 58,
\* and otherwise goes on to lines 61-63. When weave.init (main.py 32) raises
\* the run ends there; so does the run a click starts, before its handler.
Rerun ==
    /\ pc \in {"idle", "rerun"}
    /\ \E initialized \in BOOLEAN :
         IF ~initialized
         THEN /\ pc' = "idle"
              /\ screen' = ExceptionScreen
              /\ UNCHANGED <<runs, calls>>
         ELSE IF ~IsNone(audio_file) /\ ~Truthy(query_result)
         THEN /\ runs < MaxRuns
              /\ runs' = runs + 1
              /\ pc' = process_audio_file_steps[1]
              /\ calls' = <<>>
              /\ screen' = BlankScreen
         ELSE /\ pc' = "idle"
              /\ screen' = main_tail(query_result, required_columns, final_query,
                                     sort_by_query, weave_response, status_code)
              /\ UNCHANGED <<runs, calls>>
    /\ UNCHANGED <<session, recorder, columns_file, harness, studio, columns_with_description_str,
                   aborted>>

\* An exception leaves process_audio_file and ends the script run.
Abort ==
    /\ pc' = "idle"
    /\ screen' = ExceptionScreen
    /\ aborted' = TRUE

\* The step s of process_audio_file has returned: go on to the next one, or
\* leave the function and finish main() (lines 61-63).
Advance(s) ==
    /\ aborted' = aborted
    /\ IF StepAfter(s) = "done"
       THEN /\ pc' = "idle"
            /\ screen' = main_tail(query_result', required_columns', final_query',
                                   sort_by_query', weave_response', status_code')
       ELSE /\ pc' = StepAfter(s)
            /\ screen' = screen

\* The text Jinja prints for query_result.
QueryText == IF IsNone(query_result) THEN <<"None">> ELSE Val(query_result)

\* What the steps of process_audio_file read and write.
RunState ==
    [query |-> QueryText, description |-> columns_with_description_str,
     required_columns |-> required_columns, final_query |-> final_query,
     sort_by_query |-> sort_by_query]

\* main.py 154-159: the prompt of Step A and what its reply does to the
\* state. The "" passed as columns prints as nothing, and the template has
\* no place for it.
select_prompt(st) ==
    render_prompt(st.query, st.description, StrOfColumns(None), COLUMN_SELECTION_PROMPT)

\* A Step A that adds its reply to the columns the session already holds.
select_step_extending(st, reply) ==
    [st EXCEPT !.required_columns =
        IF IsNone(st.required_columns) \/ IsNone(reply.columns)
           \/ Val(reply.columns).type # "list"
        THEN reply.columns
        ELSE Some(ColList(Val(st.required_columns).items \o Val(reply.columns).items))]

\* main.py 154-159: the reply's "columns" replaces required_columns.
select_step(st, reply) == [st EXCEPT !.required_columns = reply.columns]

\* A validation pass that is skipped.
validate_step_skipped(st, allowed_columns) == st

\* main.py 165-169: the validation pass.
validate_step(st, allowed_columns) ==
    [st EXCEPT !.required_columns =
        Some(ColList(FilterColumns(Val(st.required_columns).items, allowed_columns)))]

\* main.py 172-177: the columns and the prompt of Step B, and what its reply
\* does to the state.
filter_columns(st) == st.required_columns
filter_prompt(st) ==
    render_prompt(st.query, st.description, StrOfColumns(filter_columns(st)), QUERY_PROMPT)
filter_step(st, reply) == [st EXCEPT !.final_query = reply.query]

\* A Step C chained on Step B: its columns are the fields of the filter.
sort_columns_chained(st) ==
    IF IsNone(st.final_query) THEN st.required_columns
    ELSE Some(ColList(FilterColumns(Val(st.required_columns).items,
                                    <<CHOOSE n \in FieldRefs(Val(st.final_query)) : TRUE>>)))

\* main.py 180-185: the columns and the prompt of Step C, and what its reply
\* does to the state.
sort_columns(st) == st.required_columns
sort_prompt(st) ==
    render_prompt(st.query, st.description, StrOfColumns(sort_columns(st)), SORT_BY_PROMPT)
sort_step(st, reply) == [st EXCEPT !.sort_by_query = reply.sort_by]

\* utils.generate_response raises on text that is no JSON (json.loads) and its
\* caller raises KeyError when the key is missing.
Raises(reply, key) == ~reply.valid \/ IsNone(reply[key])

NoReply == Reply(FALSE, None, None, None)

\* main.py 148-151: audio2text, whose text is stored at once, then
\* get_fields_description, which raises when columns.json cannot be read.
Transcribe ==
    /\ pc = "audio2text"
    /\ calls' = Append(calls, Call("audio2text", <<>>, None, NoReply, None, None, NoOutcome))
    /\ \E raised \in BOOLEAN :
         IF raised
         THEN /\ Abort
              /\ UNCHANGED <<query_result, columns_with_description_str>>
         ELSE /\ \E text \in Transcriptions : query_result' = Some(text)
              /\ IF columns_json_readable
                 THEN /\ columns_with_description_str' =
                           get_fields_description(columns_json)
                      /\ Advance("audio2text")
                 ELSE /\ Abort
                      /\ UNCHANGED columns_with_description_str
    /\ UNCHANGED <<recording, audio_file, required_columns, final_query, stream,
                   weave_response, status_code, sort_by_query, recorder, columns_file,
                   harness, studio, runs>>

\* main.py 153-159: Step A, field selection; the raw reply goes into
\* required_columns.
SelectFields ==
    /\ pc = "select"
    /\ \E reply \in RepliesA :
         /\ calls' = Append(calls,
                Call("select", select_prompt(RunState), None, reply, None, None,
                     NoOutcome))
         /\ IF Raises(reply, "columns")
            THEN Abort /\ UNCHANGED required_columns
            ELSE /\ required_columns' = select_step(RunState, reply).required_columns
                 /\ Advance("select")
    /\ UNCHANGED <<recording, audio_file, query_result, final_query, stream,
                   weave_response, status_code, sort_by_query, recorder, columns_file, harness, studio,
                   columns_with_description_str, runs>>

\* main.py 161-169: the validation pass against the keys of columns.json,
\* which is opened again and raises when it cannot be read.
ValidateFields ==
    /\ pc = "validate"
    /\ calls' = Append(calls,
           Call("validate", <<>>, required_columns, NoReply, None, None, NoOutcome))
    /\ IF \/ ~columns_json_readable
          \/ IsNone(required_columns)
          \/ Val(required_columns).type # "list"
       THEN Abort /\ UNCHANGED required_columns
       ELSE /\ required_columns' =
                 validate_step(RunState, Keys(columns_json)).required_columns
            /\ Advance("validate")
    /\ UNCHANGED <<recording, audio_file, query_result, final_query, stream,
                   weave_response, status_code, sort_by_query, recorder, columns_file, harness, studio,
                   columns_with_description_str, runs>>

\* main.py 171-177: Step B, filter synthesis.
SynthesizeFilter ==
    /\ pc = "filter"
    /\ \E reply \in RepliesB :
         /\ calls' = Append(calls,
                Call("filter", filter_prompt(RunState), filter_columns(RunState), reply,
                     None, None, NoOutcome))
         /\ IF Raises(reply, "query")
            THEN Abort /\ UNCHANGED final_query
            ELSE /\ final_query' = filter_step(RunState, reply).final_query
                 /\ Advance("filter")
    /\ UNCHANGED <<recording, audio_file, query_result, required_columns, stream,
                   weave_response, status_code, sort_by_query, recorder, columns_file, harness, studio,
                   columns_with_description_str, runs>>

\* main.py 179-185: Step C, sort synthesis.
SynthesizeSort ==
    /\ pc = "sort"
    /\ \E reply \in RepliesC :
         /\ calls' = Append(calls,
                Call("sort", sort_prompt(RunState), sort_columns(RunState), reply,
                     None, None, NoOutcome))
         /\ IF Raises(reply, "sort_by")
            THEN Abort /\ UNCHANGED sort_by_query
            ELSE /\ sort_by_query' = sort_step(RunState, reply).sort_by_query
                 /\ Advance("sort")
    /\ UNCHANGED <<recording, audio_file, query_result, required_columns, final_query,
                   stream, weave_response, status_code, recorder, columns_file, harness, studio,
                   columns_with_description_str, runs>>

\* main.py 187-191: call_weave, whose pair goes into weave_response and
\* status_code.
Execute ==
    /\ pc = "execute"
    /\ \E outcome \in StoreOutcomes :
         /\ calls' = Append(calls,
                Call("execute", <<>>, None, NoReply, final_query, sort_by_query, outcome))
         /\ weave_response' = Some(call_weave(final_query, sort_by_query, outcome)[1])
         /\ status_code' = Some(call_weave(final_query, sort_by_query, outcome)[2])
    /\ UNCHANGED <<recording, audio_file, query_result, required_columns, final_query,
                   stream, sort_by_query, recorder, columns_file, harness, studio,
                   columns_with_description_str, runs>>
    /\ Advance("execute")

Next ==
    \/ AudioCallback
    \/ AudioCallbackPuts
    \/ ClickStartRecording
    \/ ClickStopRecording
    \/ StopRecordingReturns
    \/ ClickStartOver
    \/ Rerun
    \/ Transcribe
    \/ SelectFields
    \/ ValidateFields
    \/ SynthesizeFilter
    \/ SynthesizeSort
    \/ Execute

Spec == Init /\ [][Next]_vars

\* ===================================================================
\* Properties of the session (specification Spec)
\* ===================================================================
\* The step names of the calls issued so far in the run.
StepsOf(cs) == [i \in 1..Len(cs) |-> cs[i].step]

\* The entry of calls for step s (the run has issued it).
HasCall(s) == \E i \in 1..Len(calls) : calls[i].step = s
CallOf(s) == calls[CHOOSE i \in 1..Len(calls) : calls[i].step = s]

\* The names of a list that are keys of the catalog, in the list's order.
KnownOf(items) == SelectSeq(items, LAMBDA n : \E k \in 1..Len(columns_json) :
                                                  columns_json[k].name = n)

CatalogNames == {columns_json[k].name : k \in 1..Len(columns_json)}

\* C1: once the validation pass of a run has returned, required_columns holds
\* exactly the names of the Step A reply that are keys of the catalog, in the
\* reply's order, and that list (never the raw reply) is what Step B and
\* Step C are given, as argument and inside the rendered prompt.
C1_ValidatedColumnsOnly ==
    pc \in {"filter", "sort", "execute"} =>
      LET raw == Val(CallOf("select").reply.columns).items
          validated == Some(ColList(KnownOf(raw)))
      IN /\ required_columns = validated
         /\ Range(Val(required_columns).items) \subseteq CatalogNames
         /\ \A i \in 1..Len(calls) :
              /\ calls[i].step \in {"filter", "sort"} => calls[i].columns = validated
              /\ calls[i].step = "filter" =>
                   calls[i].prompt =
                     render_prompt(QueryText, get_fields_description(columns_json),
                                   StrOfList(KnownOf(raw)), QUERY_PROMPT)
              /\ calls[i].step = "sort" =>
                   calls[i].prompt =
                     render_prompt(QueryText, get_fields_description(columns_json),
                                   StrOfList(KnownOf(raw)), SORT_BY_PROMPT)

\* C1 witness: Step A named an unknown column before a known one, the pass
\* dropped the unknown one, and both synthesis steps have been called.
C1_Witness ==
    /\ pc = "execute"
    /\ Val(CallOf("select").reply.columns).items =
         <<"zz.unknown", "attributes.model_name">>
    /\ required_columns = Some(ColList(<<"attributes.model_name">>))
    /\ CallOf("sort").columns = required_columns

\* The fields of a sort specification.
SortFields(sort_by) == {sort_by[i].field : i \in 1..Len(sort_by)}

\* C2 (as claimed): whatever Steps B and C reply, every $getField of the
\* filter and every field of the sort given to call_weave is a key of the
\* catalog and a member of the validated list.
C2_FieldsContained_Claimed ==
    HasCall("execute") =>
      /\ FieldRefs(Val(CallOf("execute").query)) \subseteq CatalogNames
      /\ SortFields(Val(CallOf("execute").sort_by)) \subseteq CatalogNames

\* s is t or a proper beginning of t.
IsPrefix(s, t) == Len(s) <= Len(t) /\ \A i \in 1..Len(s) : s[i] = t[i]

\* C3: within one run of process_audio_file the calls are issued in the
\* order transcription, Step A, validation, Step B, Step C, store, each at
\* most once; the store is called only after both synthesis steps have
\* returned a result and they start only after validation.
C3_LinearOrder ==
    /\ IsPrefix(StepsOf(calls),
                <<"audio2text", "select", "validate", "filter", "sort", "execute">>)
    /\ HasCall("execute") =>
         /\ ~Raises(CallOf("filter").reply, "query")
         /\ ~Raises(CallOf("sort").reply, "sort_by")
    /\ HasCall("filter") \/ HasCall("sort") =>
         /\ HasCall("validate")
         /\ CallOf("filter").columns = Some(ColList(KnownOf(
                Val(CallOf("validate").columns).items)))

\* C3 witness: a run that went through all six steps.
C3_Witness ==
    /\ pc = "idle"
    /\ StepsOf(calls) = <<"audio2text", "select", "validate", "filter", "sort", "execute">>
    /\ status_code = Some(200)

\* C4 (as claimed): once a run of process_audio_file for the recording in
\* audio_file has ended in an exception, process_audio_file is not entered
\* again for that recording.
C4_AbortedNeverResumed ==
    aborted => pc \notin Range(process_audio_file_steps)

Last(sq) == sq[Len(sq)]

\* What the script run of a session reads and writes; the device thread of a
\* stream touches none of it.
script == <<session, pc, columns_with_description_str, screen, calls, runs, aborted>>

\* C5: the step that calls call_weave always returns to main() without an
\* exception, with the store's rows and 200 when weave.init, get_calls and
\* to_pandas all succeeded, and with an empty table and 500 when one raised.
\* (A step of the device thread meanwhile is no step of the script.)
C5_CallWeaveNeverRaises ==
    [][(pc = "execute" /\ script' # script) =>
         LET outcome == Last(calls').outcome
         IN /\ Last(calls').step = "execute"
            /\ pc' = "idle"
            /\ aborted' = aborted
            /\ screen'.kind # "exception"
            /\ outcome.ok =>
                 weave_response' = Some(outcome.rows) /\ status_code' = Some(200)
            /\ ~outcome.ok =>
                 weave_response' = Some(EmptyDataFrame) /\ status_code' = Some(500)
            /\ status_code' = Some(200) => outcome.ok]_vars

\* C5 witness: to_pandas raised inside call_weave and the run ended with an
\* empty table and 500.
C5_Witness ==
    /\ pc = "idle"
    /\ HasCall("execute")
    /\ CallOf("execute").outcome.failed = "to_pandas"
    /\ weave_response = Some(EmptyDataFrame)
    /\ status_code = Some(500)
    /\ ~aborted

\* C6: a page that shows results shows the table (with the stored rows) when
\* status_code is 200 and the error message for every other status, unset
\* included; a run whose store call failed is shown with the error message.
C6_ErrorUnlessStatus200 ==
    pc = "idle" /\ screen.kind = "results" =>
      /\ status_code = Some(200) => screen.panel = "table" /\ screen.rows = weave_response
      /\ status_code # Some(200) => screen.panel = "error" /\ screen.rows = None
      /\ HasCall("execute") /\ ~CallOf("execute").outcome.ok => screen.panel = "error"

\* C6 witness: results are shown for a run that never reached the store, so
\* that status_code was never set, and the page shows the error message.
C6_Witness ==
    /\ pc = "idle"
    /\ screen.kind = "results"
    /\ status_code = None
    /\ screen.panel = "error"

\* C9: from the state in which Step B is about to be called, whatever
\* result Step B replies, Step C is given the columns and the prompt it
\* would be given before Step B's reply (so the same ones for any two
\* replies of Step B) and stores the same sort specification; and calling
\* Step C before Step B gives each step the same prompt and leaves the same
\* final_query and sort_by_query. A run that has called both steps gave
\* Step C the prompt it would have been given before Step B's reply.
C9_SortIndependentOfFilter ==
    /\ pc = "filter" =>
         \A f \in Filters, srt \in Sorts :
           LET rB == Reply(TRUE, None, Some(f), None)
               rC == Reply(TRUE, None, None, Some(srt))
               in_order == sort_step(filter_step(RunState, rB), rC)
               swapped == filter_step(sort_step(RunState, rC), rB)
           IN /\ sort_columns(filter_step(RunState, rB)) = sort_columns(RunState)
              /\ sort_prompt(filter_step(RunState, rB)) = sort_prompt(RunState)
              /\ in_order.sort_by_query = sort_step(RunState, rC).sort_by_query
              /\ filter_prompt(sort_step(RunState, rC)) = filter_prompt(RunState)
              /\ swapped = in_order
    /\ pc = "execute" =>
         /\ CallOf("sort").prompt = sort_prompt([RunState EXCEPT !.final_query = None])
         /\ CallOf("sort").columns = CallOf("filter").columns
         /\ final_query = CallOf("filter").reply.query
         /\ sort_by_query = CallOf("sort").reply.sort_by

\* C9 witness: Step B replied a filter over the latency while Step C was
\* given the validated list, which holds the model name alone.
C9_Witness ==
    /\ pc = "execute"
    /\ FieldRefs(Val(final_query)) = {"output.model_latency.mean"}
    /\ CallOf("sort").columns = Some(ColList(<<"attributes.model_name">>))
    /\ sort_by_query = Some(<<>>)

\* ===================================================================
\* evals.py: one row of the evaluation (specification SpecEval)
\* ===================================================================
\* Replies the service gives the harness. They are well formed: what the
\* evaluation does with a predict that raises is weave's, not this program's.
EvalRepliesA == {Reply(TRUE, Some(ColList(c)), None, None) : c \in SeqsUpTo(Names, MaxCols)}
EvalRepliesB ==
    {Reply(TRUE, None, Some(f), None) : f \in Filters \cup {gt_filters[ev_item]}}

\* The service answers prompt with reply: any reply, but the one it gave
\* before when it is deterministic and has seen the prompt.
Answers(prompt, reply) ==
    IF ~ev_varying /\ prompt \in DOMAIN ev_service
    THEN reply = ev_service[prompt] /\ ev_service' = ev_service
    ELSE ev_service' = IF ~ev_varying THEN ev_service @@ (prompt :> reply)
                       ELSE ev_service

\* The row's query.
ev_user_query == evaluation_dataset[ev_item].user_query

\* evals.py 203-208 and 236-241: Step A as the harness calls it, with the
\* parsed dict as the description.
eval_select_prompt ==
    render_prompt(ev_user_query, evals_get_fields_description(columns_json),
                  StrOfColumns(None), COLUMN_SELECTION_PROMPT)

\* evals.py 211-216 and 243-248: Step B as the harness calls it, with the
\* columns of Step A's reply as they came.
eval_filter_prompt(columns) ==
    render_prompt(ev_user_query, evals_get_fields_description(columns_json),
                  StrOfColumns(columns), QUERY_PROMPT)

\* evals.py 251
query_accuracy_score(expected_query, output) ==
    IF expected_query = output THEN 1 ELSE 0

\* QueryEvalModel.predict, first call (evals.py 203-208).
PredictSelect ==
    /\ ev_pc = "predict_select"
    /\ \E reply \in EvalRepliesA :
         /\ Answers(eval_select_prompt, reply)
         /\ ev_calls' = Append(ev_calls,
                Call("predict_select", eval_select_prompt, None, reply, None, None,
                     NoOutcome))
    /\ ev_pc' = "predict_filter"
    /\ UNCHANGED <<application, studio, columns_file, ev_item, ev_output, ev_expected, ev_score,
                   ev_varying>>

\* QueryEvalModel.predict, second call and return (evals.py 211-218).
PredictFilter ==
    /\ ev_pc = "predict_filter"
    /\ LET columns == Last(ev_calls).reply.columns
       IN \E reply \in EvalRepliesB :
            /\ Answers(eval_filter_prompt(columns), reply)
            /\ ev_calls' = Append(ev_calls,
                   Call("predict_filter", eval_filter_prompt(columns), columns, reply,
                        None, None, NoOutcome))
            /\ ev_output' = reply.query
    /\ ev_pc' = "score_select"
    /\ UNCHANGED <<application, studio, columns_file, ev_item, ev_expected, ev_score,
                   ev_varying>>

\* query_accuracy_score, first call (evals.py 236-241).
ScoreSelect ==
    /\ ev_pc = "score_select"
    /\ \E reply \in EvalRepliesA :
         /\ Answers(eval_select_prompt, reply)
         /\ ev_calls' = Append(ev_calls,
                Call("score_select", eval_select_prompt, None, reply, None, None,
                     NoOutcome))
    /\ ev_pc' = "score_filter"
    /\ UNCHANGED <<application, studio, columns_file, ev_item, ev_output, ev_expected, ev_score,
                   ev_varying>>

\* query_accuracy_score, second call and the comparison (evals.py 243-252).
ScoreFilter ==
    /\ ev_pc = "score_filter"
    /\ LET columns == Last(ev_calls).reply.columns
       IN \E reply \in EvalRepliesB :
            /\ Answers(eval_filter_prompt(columns), reply)
            /\ ev_calls' = Append(ev_calls,
                   Call("score_filter", eval_filter_prompt(columns), columns, reply,
                        None, None, NoOutcome))
            /\ ev_expected' = reply.query
            /\ ev_score' = Some(query_accuracy_score(reply.query, ev_output))
    /\ ev_pc' = "scored"
    /\ UNCHANGED <<application, studio, columns_file, ev_item, ev_output, ev_varying>>

NextEval ==
    \/ PredictSelect
    \/ PredictFilter
    \/ ScoreSelect
    \/ ScoreFilter

\* The evaluation script is run on one row, with a service that is
\* deterministic or not; the application is not started.
InitEval ==
    /\ InitApplication
    /\ columns_json \in Catalogs
    /\ columns_json_readable = TRUE
    /\ \E item \in 1..Len(eval_dataset), varying \in BOOLEAN :
         InitHarness(item, varying)
    /\ InitStudio

SpecEval == InitEval /\ [][NextEval]_vars

\* ===================================================================
\* Properties of the harness (specification SpecEval)
\* ===================================================================
\* C7 (as claimed): the score of a row is 1 when predict's filter equals
\* the row's gold filter and 0 when it differs from it.
C7_ScoreAgainstGold ==
    ev_pc = "scored" =>
      ev_score = Some(IF Val(ev_output) = eval_dataset[ev_item].gt_filters THEN 1 ELSE 0)

\* The state process_audio_file is in before Step A, for the row's query and
\* the catalog.
MainStateFor(query) ==
    [query |-> query, description |-> get_fields_description(columns_json),
     required_columns |-> None, final_query |-> None, sort_by_query |-> None]

\* C8 (as claimed): the prompts predict renders at Steps A and B, and the
\* columns it gives Step B, are those process_audio_file renders and gives
\* for the same query, catalog and Step A reply.
C8_PredictSameAsMain ==
    Len(ev_calls) >= 2 =>
      LET before == MainStateFor(ev_user_query)
          validated == validate_step(select_step(before, ev_calls[1].reply),
                                     Keys(columns_json))
      IN /\ ev_calls[1].prompt = select_prompt(before)
         /\ ev_calls[2].columns = filter_columns(validated)
         /\ ev_calls[2].prompt = filter_prompt(validated)

\* The operators a filter may use, with the wrapper and the leaf keys.
AllowedOperators ==
    {"$eq", "$gt", "$gte", "$and", "$or", "$not", "$contains",
     "$convert", "$getField", "$literal", "$expr"}

\* The query says "less than".
IsLessThanQuery(query) ==
    \E i \in 1..(Len(query) - 1) : query[i] = "less" /\ query[i + 1] = "than"

RECURSIVE HasNotGte(_)
\* The filter holds a $not whose operand is a $gte.
HasNotGte(e) ==
    \/ e.op = "$not" /\ e.args[1].op = "$gte"
    \/ \E i \in 1..Len(e.args) : HasNotGte(e.args[i])

\* C10 (as claimed): the gold filter of every row uses the allowed operators
\* only, holds no $lt, $lte or $ne, and states "less than" as $not of $gte.
C10_GoldUsesAllowedOperators ==
    LET gold == eval_dataset[ev_item].gt_filters
    IN /\ Operators(gold) \subseteq AllowedOperators
       /\ Operators(gold) \cap {"$lt", "$lte", "$ne"} = {}
       /\ IsLessThanQuery(eval_dataset[ev_item].user_query) => HasNotGte(gold)

\* ===================================================================
\* prompts.py: the few-shot examples of QUERY_PROMPT (specification Spec)
\* ===================================================================
\* prompts.py 84-143: the operator examples, each under a heading that names
\* the comparison it shows.
QUERY_PROMPT_OPERATOR_EXAMPLES ==
    << [comparison |-> "!=",
        query |-> Expr(Not(NumCmp("$eq",
                     "output.hallucination_scorer.scorer_accuracy.true_count", "0.5")))],
       [comparison |-> "<=",
        query |-> Expr(Not(NumCmp("$gt",
                     "output.HalluScorerEvaluator.completion_tokens.mean", "0.25")))],
       [comparison |-> "<",
        query |-> Expr(Not(NumCmp("$gte",
                     "output.HalluScorerEvaluator.completion_tokens.mean", "0.5")))],
       [comparison |-> "contains",
        query |-> Expr(Contains(GetField("attributes.model_name"), Literal("gpt")))] >>

\* prompts.py 148-230: the worked examples, a query, its columns and the
\* filter given as its answer.
QUERY_PROMPT_QUERY_EXAMPLES ==
    << [query |-> <<"Find", "all", "the", "rows", "where", "the", "latency", "was",
                    "greater", "than", "100ms">>,
        columns |-> <<"output.model_latency.mean">>,
        output |-> Expr(NumCmp("$gt", "output.model_latency.mean", "100"))],
       [query |-> <<"Find", "models", "with", "accuracy", "above", "0.9">>,
        columns |-> <<"attributes.model_name",
                      "output.HalluScorerEvaluator.scorer_evaluation_metrics.accuracy">>,
        output |-> Expr(NumCmp("$gt",
                      "output.HalluScorerEvaluator.scorer_evaluation_metrics.accuracy",
                      "0.9"))],
       [query |-> <<"Find", "models", "trained", "for", "more", "than", "5", "epochs",
                    "with", "learning", "rate", "below", "0.001">>,
        columns |-> <<"attributes.model_name", "attributes.num_train_epochs",
                      "attributes.learning_rate">>,
        output |-> Expr(And(NumCmp("$gt", "attributes.num_train_epochs", "5"),
                            Not(NumCmp("$gt", "attributes.learning_rate", "0.001"))))],
       [query |-> <<"Find", "all", "the", "rows", "where", "the", "model", "name",
                    "contains", "'gpt'">>,
        columns |-> <<"attributes.model_name">>,
        output |-> Expr(Contains(GetField("attributes.model_name"), Literal("gpt")))] >>

RECURSIVE NotOperands(_)
\* The operators found directly under a $not of a filter.
NotOperands(e) ==
    (IF e.op = "$not" THEN {e.args[1].op} ELSE {})
    \cup UNION {NotOperands(e.args[i]) : i \in 1..Len(e.args)}

\* The query asks for strictly less than: "less than" or "below".
IsStrictlyLessQuery(query) == IsLessThanQuery(query) \/ "below" \in Range(query)

\* C11 (as claimed): the QUERY_PROMPT that Step B renders keeps the
\* derived-comparison convention in every example: the != example is $not of
\* $eq, the <= example $not of $gt, the < example $not of $gte, and every
\* worked example whose query says "less than" or "below" answers with $not
\* of $gte and with no $not of $gt.
C11_ExamplesKeepConvention ==
    HasCall("filter") =>
      /\ \A i \in 1..Len(QUERY_PROMPT_OPERATOR_EXAMPLES) :
           LET ex == QUERY_PROMPT_OPERATOR_EXAMPLES[i]
           IN /\ ex.comparison = "!=" => NotOperands(ex.query) = {"$eq"}
              /\ ex.comparison = "<=" => NotOperands(ex.query) = {"$gt"}
              /\ ex.comparison = "<" => NotOperands(ex.query) = {"$gte"}
      /\ \A i \in 1..Len(QUERY_PROMPT_QUERY_EXAMPLES) :
           LET ex == QUERY_PROMPT_QUERY_EXAMPLES[i]
           IN IsStrictlyLessQuery(ex.query) => NotOperands(ex.output) = {"$gte"}

\* ===================================================================
\* columns.json edited while the application runs
\* (specification SpecCatalogEdited)
\* ===================================================================
\* Somebody saves another columns.json, removes the file or puts it back.
\* The application holds no copy of the file: utils.get_fields_description (utils.py 214-215) and the validation
\* pass (main.py 162-163) each open it when they run.
EditColumnsJson ==
    /\ \E catalog \in Catalogs, readable \in BOOLEAN :
         /\ <<catalog, readable>> # <<columns_json, columns_json_readable>>
         /\ columns_json' = catalog
         /\ columns_json_readable' = readable
    /\ UNCHANGED <<application, harness, studio>>

NextCatalogEdited ==
    \/ Next
    \/ EditColumnsJson

SpecCatalogEdited == Init /\ [][NextCatalogEdited]_vars

\* C12 (as claimed): in a run that has passed validation, the key set the
\* pass used belongs to the catalog whose description the run rendered into
\* its prompts, also when columns.json was edited meanwhile: required_columns
\* is the Step A reply restricted to the keys of that catalog.
C12_CatalogLoadedOnce ==
    pc \in {"filter", "sort", "execute"} =>
      \A catalog \in Catalogs :
        columns_with_description_str = get_fields_description(catalog) =>
          required_columns =
            Some(ColList(FilterColumns(Val(CallOf("validate").columns).items,
                                       Keys(catalog))))

\* ===================================================================
\* Step A and the validation pass, run again (specification Spec)
\* ===================================================================
\* C13: from any state in which Step A is about to be called, for any reply
\* with a column list: the validated list is the reply restricted to the
\* catalog keys whatever the session held before; running Step A again after
\* the pass renders the same prompt, so that a deterministic service gives
\* the same reply, and the second pass leaves the same list, members and
\* order.
C13_SelectValidateIdempotent ==
    pc = "select" =>
      \A reply \in RepliesA :
        (~Raises(reply, "columns") /\ Val(reply.columns).type = "list") =>
          LET allowed_columns == Keys(columns_json)
              once == validate_step(select_step(RunState, reply), allowed_columns)
              twice == validate_step(select_step(once, reply), allowed_columns)
          IN /\ select_prompt(once) = select_prompt(RunState)
             /\ twice.required_columns = once.required_columns
             /\ once.required_columns =
                  Some(ColList(KnownOf(Val(reply.columns).items)))

\* C13 witness: the same recording is processed a second time with the same
\* (empty) transcription, and Step A is about to be called while the session
\* still holds the validated list of the first time.
C13_Witness ==
    /\ pc = "select"
    /\ runs = 2
    /\ query_result = Some(<<>>)
    /\ required_columns = Some(ColList(<<"attributes.model_name">>))

\* ===================================================================
\* What a page of results shows (specification Spec)
\* ===================================================================
\* C14 (as claimed): a page of results shows the transcription the session
\* holds, and every value shown next to it was produced by the run of
\* process_audio_file that stored that transcription: the columns are the
\* run's validated list (the raw reply of Step A if the pass failed), the filter and the sort are the replies of the run's
\* Steps B and C, the table holds the rows the run's store call returned, and
\* a value the run did not produce is shown as unset. Stated for recordings
\* that were processed once.
C14_ShownValuesOfSameQuery ==
    (pc = "idle" /\ screen.kind = "results" /\ runs = 1) =>
      /\ screen.transcription = query_result
      /\ HasCall("audio2text")
      /\ IF HasCall("filter")
         THEN screen.columns = CallOf("filter").columns
         ELSE IF HasCall("select") /\ ~Raises(CallOf("select").reply, "columns")
         THEN screen.columns = CallOf("select").reply.columns
         ELSE IsNone(screen.columns)
      /\ IF HasCall("filter") /\ ~Raises(CallOf("filter").reply, "query")
         THEN screen.query = CallOf("filter").reply.query
         ELSE IsNone(screen.query)
      /\ IF HasCall("sort") /\ ~Raises(CallOf("sort").reply, "sort_by")
         THEN screen.sort = CallOf("sort").reply.sort_by
         ELSE IsNone(screen.sort)
      /\ IF HasCall("execute") /\ CallOf("execute").outcome.ok
         THEN screen.panel = "table" /\ screen.rows = Some(CallOf("execute").outcome.rows)
         ELSE screen.panel = "error"

\* ===================================================================
\* The guard of main (specification Spec)
\* ===================================================================
\* C15 (as claimed): process_audio_file is entered at most once for the
\* recording in audio_file, whatever the transcription was. Stated for
\* recordings none of whose runs ended in an exception.
C15_ProcessedAtMostOnce ==
    ~aborted => runs <= 1

\* ===================================================================
\* The recording flag and the stream (specification Spec)
\* ===================================================================
\* C16 (as claimed): whenever a script run has ended, the session's recording
\* flag is true exactly when the session holds an input stream, also after a
\* start_recording that raised.
C16_RecordingIffStream ==
    pc = "idle" => (recording <=> ~IsNone(stream))

\* ===================================================================
\* utils.py: the recorder shared by the sessions of one process
\* (specifications SpecOneSession and SpecTwoSessions)
\* ===================================================================
\* audio_queue, is_recording and the file "audio.wav" are one per process;
\* recording, stream and audio_file are one per session. The handlers of two
\* sessions run in two threads, so the loops of start_recording and
\* stop_recording take one block at a time. A block is the session whose
\* stream captured it and its number among all blocks.
Chunk(s, n) == [from |-> s, id |-> n]

\* What the recorder of the sessions leaves alone.
untouched == <<session, stream_active, putting, pc, columns_with_description_str,
               screen, calls, runs, aborted, harness, columns_file>>
rest == <<untouched, record_audio_at>>

\* The device thread delivers a block to audio_callback for the started
\* stream of session s, and the callback reads is_recording (utils.py 83-96),
\* under no lock. The callbacks of a stream follow one another.
DeviceDelivers(s) ==
    /\ sessions[s].started
    /\ IsNone(sessions[s].putting)
    /\ chunk_no < MaxChunks
    /\ chunk_no' = chunk_no + 1
    /\ sessions' = [sessions EXCEPT ![s].putting =
           audio_callback(is_recording, Chunk(s, chunk_no + 1))]
    /\ delivered' = [delivered EXCEPT ![s] =
           Append(@, [chunk |-> Chunk(s, chunk_no + 1),
                      between |-> sessions[s].between])]
    /\ UNCHANGED <<rest, is_recording, audio_queue, wav_file>>

\* The callback puts its block into the queue (utils.py 97), whatever
\* is_recording has become since its test.
CallbackPuts(s) ==
    /\ ~IsNone(sessions[s].putting)
    /\ audio_queue' = Append(audio_queue, Val(sessions[s].putting))
    /\ sessions' = [sessions EXCEPT ![s].putting = None]
    /\ UNCHANGED <<rest, is_recording, wav_file, delivered, chunk_no>>

\* Session s clicks Start Recording (main.py 112-117) and start_recording
\* is entered.
SessionStarts(s) ==
    /\ sessions[s].phase = "idle"
    /\ ~sessions[s].recording
    /\ sessions' = [sessions EXCEPT ![s].recording = TRUE, ![s].audio_file = None,
                                    ![s].phase = "clearing", ![s].saved = None,
                                    ![s].between = FALSE, ![s].stopped = FALSE]
    /\ UNCHANGED <<rest, is_recording, audio_queue, wav_file, delivered, chunk_no>>

\* A step of start_recording from its loop on (utils.py 112-127); the
\* callbacks of other sessions' streams run between its steps. It tests
\* audio_queue.empty() (utils.py 112); when the queue is not empty it goes
\* on to audio_queue.get() (utils.py 113), a step of its own that takes the
\* oldest block and waits while there is none. When the queue is empty it
\* leaves the loop; it then sets is_recording (utils.py 115); it then opens
\* a stream and returns (utils.py 118-127), or raises when the stream cannot
\* be opened.
StartRecordingStep(s) ==
    /\ sessions[s].phase \in {"clearing", "clear_get", "cleared", "flagged"}
    /\ IF sessions[s].phase = "clear_get"
       THEN /\ audio_queue # <<>>
            /\ audio_queue' = Tail(audio_queue)
            /\ sessions' = [sessions EXCEPT ![s].phase = "clearing"]
            /\ UNCHANGED <<is_recording, delivered>>
       ELSE IF sessions[s].phase = "clearing" /\ audio_queue # <<>>
       THEN /\ sessions' = [sessions EXCEPT ![s].phase = "clear_get"]
            /\ UNCHANGED <<is_recording, audio_queue, delivered>>
       ELSE IF sessions[s].phase = "clearing"
       THEN /\ sessions' = [sessions EXCEPT ![s].phase = "cleared",
                                            ![s].between = TRUE]
            /\ delivered' = [delivered EXCEPT ![s] = <<>>]
            /\ UNCHANGED <<is_recording, audio_queue>>
       ELSE IF sessions[s].phase = "cleared"
       THEN /\ is_recording' = TRUE
            /\ sessions' = [sessions EXCEPT ![s].phase = "flagged"]
            /\ UNCHANGED <<audio_queue, delivered>>
       ELSE /\ \E opened \in BOOLEAN :
                 sessions' = [sessions EXCEPT
                     ![s].phase = "idle",
                     ![s].stream = IF opened THEN Some(s) ELSE @,
                     ![s].started = IF opened THEN TRUE ELSE @]
            /\ UNCHANGED <<is_recording, audio_queue, delivered>>
    /\ UNCHANGED <<rest, wav_file, chunk_no>>

\* Session s clicks Stop Recording (main.py 123-125) and stop_recording
\* clears is_recording (utils.py 143); the stream is still started.
SessionStopBegins(s) ==
    /\ sessions[s].phase = "idle"
    /\ sessions[s].recording
    /\ IF IsNone(sessions[s].stream)
       THEN /\ sessions' = [sessions EXCEPT ![s].recording = FALSE]
            /\ UNCHANGED is_recording
       ELSE /\ sessions' = [sessions EXCEPT ![s].recording = FALSE,
                                            ![s].phase = "stopping",
                                            ![s].between = FALSE]
            /\ is_recording' = FALSE
    /\ UNCHANGED <<rest, audio_queue, wav_file, delivered, chunk_no>>

\* stream.stop() and stream.close() (utils.py 144-145) return, and
\* audio_data is the empty list (utils.py 148). Both are called with the
\* library's defaults, under which they ignore the errors of the device.
\* stop() returns once the callback of the stream has finished; the callback
\* of another session's stream is not waited for.
StopCloses(s) ==
    /\ sessions[s].phase = "stopping"
    /\ IsNone(sessions[s].putting)
    /\ sessions' = [sessions EXCEPT ![s].phase = "draining",
                                    ![s].started = FALSE,
                                    ![s].audio_data = <<>>]
    /\ UNCHANGED <<rest, is_recording, audio_queue, wav_file, delivered, chunk_no>>

\* stop_recording tests audio_queue.empty() (utils.py 149). When the queue is
\* empty and no block was taken it returns None (utils.py 152-154) and the
\* handler stores that and drops the stream (main.py 126-127); with blocks
\* it opens "audio.wav" for writing (utils.py 160), which empties the file.
StopChecks(s) ==
    /\ sessions[s].phase = "draining"
    /\ IF audio_queue # <<>>
       THEN /\ sessions' = [sessions EXCEPT ![s].phase = "drain_get"]
            /\ UNCHANGED wav_file
       ELSE IF sessions[s].audio_data = <<>>
       THEN /\ sessions' = [sessions EXCEPT ![s].phase = "idle",
                                            ![s].stream = None,
                                            ![s].stopped = TRUE,
                                            ![s].audio_file = None,
                                            ![s].saved = None]
            /\ UNCHANGED wav_file
       ELSE /\ sessions' = [sessions EXCEPT ![s].phase = "writing"]
            /\ wav_file' = <<>>
    /\ UNCHANGED <<rest, is_recording, audio_queue, delivered, chunk_no>>

\* audio_data.append(audio_queue.get()) in stop_recording (utils.py 150): it
\* takes the oldest block and waits while there is none.
StopGets(s) ==
    /\ sessions[s].phase = "drain_get"
    /\ audio_queue # <<>>
    /\ audio_queue' = Tail(audio_queue)
    /\ sessions' = [sessions EXCEPT ![s].phase = "draining",
                                    ![s].audio_data = Append(@, Head(audio_queue))]
    /\ UNCHANGED <<rest, is_recording, wav_file, delivered, chunk_no>>

\* stop_recording writes the blocks into the opened file and returns its
\* name (utils.py 161-167); the handler stores the name and drops the stream
\* (main.py 126-127).
StopWrites(s) ==
    /\ sessions[s].phase = "writing"
    /\ wav_file' = sessions[s].audio_data
    /\ sessions' = [sessions EXCEPT ![s].phase = "idle",
                                    ![s].stream = None,
                                    ![s].stopped = TRUE,
                                    ![s].audio_data = <<>>,
                                    ![s].audio_file = Some("audio.wav"),
                                    ![s].saved = Some(sessions[s].audio_data)]
    /\ UNCHANGED <<rest, is_recording, audio_queue, delivered, chunk_no>>

\* Session s clicks Start Over (main.py 227-229) on the page that shows the
\* results for its saved recording: reset_session_state (main.py 231-246)
\* clears recording, audio_file and stream, and stops no stream.
SessionStartsOver(s) ==
    /\ sessions[s].phase = "idle"
    /\ ~IsNone(sessions[s].audio_file)
    /\ sessions' = [sessions EXCEPT ![s].recording = FALSE,
                                    ![s].audio_file = None,
                                    ![s].stream = None]
    /\ UNCHANGED <<rest, is_recording, audio_queue, wav_file, delivered, chunk_no>>

\* What session s and the device can do.
Recorder(s) ==
    \/ DeviceDelivers(s)
    \/ CallbackPuts(s)
    \/ SessionStarts(s)
    \/ StartRecordingStep(s)
    \/ SessionStopBegins(s)
    \/ StopCloses(s)
    \/ StopChecks(s)
    \/ StopGets(s)
    \/ StopWrites(s)
    \/ SessionStartsOver(s)

NextOneSession == Recorder(1)

NextTwoSessions == \E s \in AllSessions : Recorder(s)

\* The server process is started, with a columns.json that can be read.
InitRecorder ==
    /\ InitApplication
    /\ columns_json = CHOOSE catalog \in Catalogs : Len(catalog) = 1
    /\ columns_json_readable = TRUE
    /\ InitHarness(1, FALSE)
    /\ InitStudio

SpecOneSession == InitRecorder /\ [][NextOneSession]_vars
SpecTwoSessions == InitRecorder /\ [][NextTwoSessions]_vars

\* The seconds a caller may ask record_audio for.
Durations == {None, Some(0), Some(1)}

\* utils.record_audio (utils.py 184-205): with a duration, also one of zero,
\* it records that long (sd.rec, sd.wait) and names "audio.wav"; without
\* one it records nothing and returns None.
record_audio(duration) ==
    IF ~IsNone(duration)
    THEN [returns |-> Some("audio.wav"),
          audio |-> Some([i \in 1..Val(duration) |-> Chunk(0, i)])]
    ELSE [returns |-> None, audio |-> None]

\* A caller of utils.record_audio (the application has none), up to
\* wave.open (utils.py 185-195), which empties the file.
RecordAudio ==
    /\ IsNone(record_audio_at)
    /\ \E duration \in Durations :
         /\ record_audio_at' = record_audio(duration).audio
         /\ wav_file' = IF IsNone(duration) THEN wav_file ELSE <<>>
    /\ UNCHANGED <<untouched, is_recording, audio_queue, sessions, delivered, chunk_no>>

\* record_audio writes the audio into the opened file and returns
\* (utils.py 196-201).
RecordAudioWrites ==
    /\ ~IsNone(record_audio_at)
    /\ wav_file' = Val(record_audio_at)
    /\ record_audio_at' = None
    /\ UNCHANGED <<untouched, is_recording, audio_queue, sessions, delivered, chunk_no>>

\* The recorder of one session next to a program that also calls
\* record_audio.
SpecRecordAudio ==
    InitRecorder /\ [][NextOneSession \/ RecordAudio \/ RecordAudioWrites]_vars

\* The blocks delivered to session s after its start_recording emptied the
\* queue and before its stop_recording was called, in delivery order.
CapturedBy(s) ==
    LET taken == SelectSeq(delivered[s], LAMBDA d : d.between)
    IN [i \in 1..Len(taken) |-> taken[i].chunk]

\* The block the callback of session s is about to put, as a sequence.
InFlight(s) ==
    IF IsNone(sessions[s].putting) THEN <<>> ELSE <<Val(sessions[s].putting)>>

\* C17: with one session, from start_recording to stop_recording's closing
\* of the stream the queue, with the block the callback is about to put,
\* holds exactly the blocks delivered between that start_recording and the
\* call of stop_recording, in order; stop_recording takes exactly those out
\* of the queue; a block delivered after stop_recording cleared
\* is_recording is neither put nor in the queue nor in what stop_recording
\* took; and when stop_recording has returned the queue is empty and
\* "audio.wav" holds exactly the blocks delivered between that
\* start_recording and that stop_recording, in order (nothing is written,
\* and no file named, when there were none).
C17_SavedAudioIsThisRecording ==
    LET s == sessions[1]
    IN /\ (s.between /\ s.phase = "idle") =>
            audio_queue \o InFlight(1) = CapturedBy(1)
       /\ s.phase = "stopping" => audio_queue \o InFlight(1) = CapturedBy(1)
       /\ s.phase \in {"draining", "drain_get"} =>
            /\ s.audio_data \o audio_queue = CapturedBy(1)
            /\ InFlight(1) = <<>>
       /\ s.phase = "writing" =>
            s.audio_data = CapturedBy(1) /\ audio_queue = <<>>
       /\ s.phase \in {"idle", "stopping", "draining", "drain_get", "writing"} =>
            \A i \in 1..Len(delivered[1]) :
              ~delivered[1][i].between =>
                delivered[1][i].chunk \notin
                  Range(audio_queue) \cup Range(s.audio_data) \cup Range(InFlight(1))
       /\ s.stopped =>
            /\ audio_queue = <<>>
            /\ InFlight(1) = <<>>
            /\ IF CapturedBy(1) = <<>>
               THEN s.audio_file = None /\ s.saved = None
               ELSE /\ s.audio_file \in {None, Some("audio.wav")}
                    /\ s.saved = Some(CapturedBy(1))
                    /\ wav_file = CapturedBy(1)

\* C17 witness: a later recording has been saved and its file is named in
\* the session; it holds the one block delivered between its start and its
\* stop, neither the block delivered before that start nor the one
\* delivered while stop_recording was running.
C17_Witness ==
    /\ sessions[1].stopped
    /\ sessions[1].audio_file = Some("audio.wav")
    /\ wav_file = <<Chunk(1, 2)>>
    /\ delivered[1] = <<[chunk |-> Chunk(1, 2), between |-> TRUE],
                        [chunk |-> Chunk(1, 3), between |-> FALSE]>>

\* C18 (as claimed): with two sessions, the audio a session saves holds only
\* blocks captured by its own stream, and while a session is recording the
\* queue holds all the blocks delivered to it since its start_recording
\* (once its callbacks have put them), whatever the other session starts or
\* stops meanwhile.
C18_SessionsDoNotInterfere ==
    \A s \in AllSessions :
      /\ ~IsNone(sessions[s].saved) =>
           \A i \in 1..Len(Val(sessions[s].saved)) : Val(sessions[s].saved)[i].from = s
      /\ (sessions[s].between /\ sessions[s].phase = "idle"
            /\ IsNone(sessions[s].putting)) =>
           SelectSeq(audio_queue, LAMBDA c : c.from = s) = CapturedBy(s)
      /\ (sessions[s].stopped /\ ~IsNone(sessions[s].saved)) =>
           wav_file = Val(sessions[s].saved)

====
